---- MODULE Spec2Model ----
(***************************************************************************)
(* Lebwohl-Lasher lattice simulation, MPI version (LebwohlLasher_mpi.py).  *)
(*                                                                         *)
(* One coordinator (rank MASTER) and numworkers = size - 1 workers.  The   *)
(* coordinator initialises the lattice, hands a block of rows to every     *)
(* worker, gathers the blocks back and reduces the per-step series.  Each  *)
(* worker runs nsteps times: sweep, measure, halo exchange.                *)
(*                                                                         *)
(* Quantisation used throughout:                                           *)
(*   - angles are integers in units of pi/2 (cos^2 has period pi, so only  *)
(*     the parity of an angle difference enters the energy);               *)
(*   - energies are stored doubled (2*en), so they are integers;           *)
(*   - ratio and order are exact rationals [num, den]; den = 0 stands for  *)
(*     the NaN that 0/0 produces in numpy;                                 *)
(*   - a uniform variate is (2u + 1)/16 for its level u in 0..7;           *)
(*   - temperatures are the integers 0, 1, 2.                              *)
(***************************************************************************)
EXTENDS Integers, Sequences, FiniteSets, TLC

\* ---------------------------------------------------------------- bounds
MaxSize == 4        \* launched processes 1..MaxSize (workers 0..MaxSize-1)
MaxN == 3           \* lattice side lengths 1..MaxN
MaxSteps == 2       \* Monte Carlo steps 0..MaxSteps
MaxNPart == 18      \* lattice side lengths of the start-up specification
MaxHaloSteps == 3   \* Monte Carlo steps of the halo-traffic specification

\* ------------------------------------------------------ program constants
MAXWORKER == 17
MINWORKER == 1
BEGIN == 1
ABOVE == 2
BELOW == 3
DONE == 4
MASTER == 0
SEED == 42

\* --------------------------------------------------------------- helpers
\* F applied to the value of e: e is evaluated once, as an assignment
\* `x = e` evaluates it once.
Bind(e, F(_)) == CHOOSE y \in {F(x) : x \in {e}} : TRUE

RECURSIVE Gcd(_, _)
Gcd(a, b) == IF b = 0 THEN a ELSE Gcd(b, a % b)

Abs(a) == IF a < 0 THEN -a ELSE a

\* Exact rationals standing in for float64 values; 0/0 is NaN.
NaN == [num |-> 0, den |-> 0]

Rat(n0, d0) ==
    Bind(<<n0, d0>>, LAMBDA nd :
        IF nd[2] = 0 THEN NaN
        ELSE Bind(Gcd(Abs(nd[1]), Abs(nd[2])) * (IF nd[2] < 0 THEN -1 ELSE 1),
                  LAMBDA g : [num |-> nd[1] \div g, den |-> nd[2] \div g]))

RZero == [num |-> 0, den |-> 1]

IsNaN(x) == x.den = 0

RAdd(x0, y0) ==
    Bind(<<x0, y0>>, LAMBDA xy :
        IF IsNaN(xy[1]) \/ IsNaN(xy[2]) THEN NaN
        ELSE Rat(xy[1].num * xy[2].den + xy[2].num * xy[1].den,
                 xy[1].den * xy[2].den))

RDivInt(x0, k) ==
    Bind(x0, LAMBDA x :
        IF IsNaN(x) \/ k = 0 THEN NaN ELSE Rat(x.num, x.den * k))

\* Sum of f[0] .. f[n-1].
RECURSIVE SumTo(_, _)
SumTo(f, n) == IF n = 0 THEN 0 ELSE f[n - 1] + SumTo(f, n - 1)

\* An array with indices 0..n-1 (0..R-1 by 0..C-1), built element by element.
RECURSIVE Arr1(_, _)
Arr1(f, n) == IF n = 0 THEN <<>> ELSE Arr1(f, n - 1) @@ ((n - 1) :> f[n - 1])

Arr2(f, R, C) == Arr1([r \in 0..(R - 1) |-> Arr1(f[r], C)], R)

\* np.zeros((R, C)) and np.zeros(n)
Zeros2(R, C) == [r \in 0..(R - 1) |-> [c \in 0..(C - 1) |-> 0]]
Zeros(n) == [k \in 0..(n - 1) |-> 0]
RZeros(n) == [k \in 0..(n - 1) |-> RZero]

\* ------------------------------------------------------- random generator
\* np.random.seed(42) in every process: each process owns a generator that
\* produces the same stream.  Stream(p) is the raw variate at position p.
Stream(p) == ((p + 1) * (p + 1) * 7 + (p + 1) * SEED + (p \div 3)) % 16

\* random_sample()*2*pi, normal(scale) and uniform(0,1) of the raw variate
Angle(raw) == raw % 4
Normal(raw) == ((raw \div 2) % 3) - 1
Uniform(raw) == (raw \div 2) % 8

\* The variate of one cell of a draw of the given distribution.
Variate(dist, raw) ==
    IF dist = "random_sample" THEN Angle(raw)
    ELSE IF dist = "normal" THEN Normal(raw)
    ELSE Uniform(raw)

\* A draw of shape (R, C) starting at stream position pos.
Draw(dist, pos, R, C) ==
    Arr2([r \in 0..(R - 1) |-> [c \in 0..(C - 1) |->
            Variate(dist, Stream(pos + r * C + c))]], R, C)

\* initdat(nmax): the first nmax*nmax variates of the coordinator's stream
initdat(n) == Draw("random_sample", 0, n, n)

\* ----------------------------------------------------------------- energy
\* cos(d)^2 for d in units of pi/2, and 2 * (0.5*(1 - 3cos^2 d))
Cos2(d) == IF d % 2 = 0 THEN 1 ELSE 0
PairEn2(d) == 1 - 3 * Cos2(d)

\* one_energy_vec(arr): np.roll wraps both axes of the array it is given.
one_energy_vec(arr, R, C) ==
    Arr2([r \in 0..(R - 1) |-> [c \in 0..(C - 1) |->
          PairEn2(arr[r][c] - arr[(r + 1) % R][c])
        + PairEn2(arr[r][c] - arr[(r + R - 1) % R][c])
        + PairEn2(arr[r][c] - arr[r][(c + 1) % C])
        + PairEn2(arr[r][c] - arr[r][(c + C - 1) % C])]], R, C)

\* The cells one_energy_vec reads for cell (r, c) of an R x C array: the
\* four np.roll shifts.
Neighbours(r, c, R, C) ==
    {<<(r + 1) % R, c>>, <<(r + R - 1) % R, c>>,
     <<r, (c + 1) % C>>, <<r, (c + C - 1) % C>>}

\* np.sum over a 2-d array
Sum2(f, R, C) == SumTo([r \in 0..(R - 1) |-> SumTo(f[r], C)], R)

all_energy(arr, R, C) == Sum2(one_energy_vec(arr, R, C), R, C)

\* get_order(arr, rows, nmax): with angles on the pi/2 grid the director is
\* (+-1, 0, 0) or (0, +-1, 0), Qab is diagonal and its eigenvalues are its
\* diagonal.  rows*nmax = 0 gives 0/0 = NaN.
get_order(arr, R, C) ==
    Bind(Sum2([r \in 0..(R - 1) |-> [c \in 0..(C - 1) |-> Cos2(arr[r][c])]],
              R, C),
         LAMBDA cc :
            LET n == R * C
                ss == n - cc
                q11 == Rat(3 * cc - n, 2 * n)
                q22 == Rat(3 * ss - n, 2 * n)
            IN  IF n = 0 THEN NaN
                ELSE IF 3 * cc - n >= 3 * ss - n THEN q11 ELSE q22)

\* ------------------------------------------------------------------ sweep
\* floor(8 * exp(-(d2/2)/Ts)) for an energy rise d2 > 0 (in half units).
\* Ts = 0: -(en1-en0)/0.0 = -inf and exp(-inf) = 0.
Boltz8(d2, Ts) ==
    IF Ts = 0 THEN 0
    ELSE IF Ts = 1 THEN (IF d2 <= 3 THEN 1 ELSE 0)
    ELSE (IF d2 <= 3 THEN 3 ELSE IF d2 <= 6 THEN 1 ELSE 0)

\* Variant: an unchanged energy is not accepted outright.
Accepts_Strict(e0, e1, u, Ts) == (e1 < e0) \/ (Boltz8(e1 - e0, Ts) > u)

\* accept_mask of one cell: boltz = k/8 >= (2u + 1)/16 exactly when k > u
Accepts(e0, e1, u, Ts) == (e1 <= e0) \/ (Boltz8(e1 - e0, Ts) > u)

\* Variant: the second mask is the first one again, not its complement.
InMask_SameTwice(r, c, parity) == (r + c) % 2 = 0

\* diag_mask_1 (parity 0) and diag_mask_2 (parity 1)
InMask(r, c, parity) == (r + c) % 2 = parity

\* mc_vec_diagonals(arr, aran, boltz_random, Ts, mask): the new array and
\* the number of accepted cells.
mc_vec_diagonals(arr, R, C, aran, boltz_random, Ts, parity) ==
    Bind(one_energy_vec(arr, R, C), LAMBDA en0 :
    Bind(Arr2([r \in 0..(R - 1) |-> [c \in 0..(C - 1) |->
                  IF InMask(r, c, parity) THEN arr[r][c] + aran[r][c]
                  ELSE arr[r][c]]], R, C), LAMBDA arr1 :
    Bind(one_energy_vec(arr1, R, C), LAMBDA en1 :
    Bind(Arr2([r \in 0..(R - 1) |-> [c \in 0..(C - 1) |->
                  InMask(r, c, parity)
                  /\ Accepts(en0[r][c], en1[r][c], boltz_random[r][c], Ts)]],
              R, C), LAMBDA accept_mask :
        [arr |-> Arr2([r \in 0..(R - 1) |-> [c \in 0..(C - 1) |->
                    IF InMask(r, c, parity) /\ ~accept_mask[r][c]
                    THEN arr1[r][c] - aran[r][c] ELSE arr1[r][c]]], R, C),
         accept |-> Sum2([r \in 0..(R - 1) |-> [c \in 0..(C - 1) |->
                    IF accept_mask[r][c] THEN 1 ELSE 0]], R, C)]))))

\* Variant: the accepted count is divided by nmax*nmax, the size of the
\* whole lattice, whatever the number of rows of the block.
MC_step_WholeLattice(arr, R, C, Ts, pos) ==
    Bind(Draw("normal", pos, R, C), LAMBDA aran :
    Bind(Draw("uniform", pos + R * C, R, C), LAMBDA boltz_random :
    Bind(mc_vec_diagonals(arr, R, C, aran, boltz_random, Ts, 0), LAMBDA p1 :
    Bind(mc_vec_diagonals(p1.arr, R, C, aran, boltz_random, Ts, 1), LAMBDA p2 :
        [arr |-> p2.arr,
         ratio |-> Rat(p1.accept + p2.accept, C * C),
         pos |-> pos + 2 * R * C]))))

\* Variant: both colours are decided in one pass on the array as it was
\* before the sweep, and the two results are merged.
MC_step_OnePass(arr, R, C, Ts, pos) ==
    Bind(Draw("normal", pos, R, C), LAMBDA aran :
    Bind(Draw("uniform", pos + R * C, R, C), LAMBDA boltz_random :
    Bind(mc_vec_diagonals(arr, R, C, aran, boltz_random, Ts, 0), LAMBDA p1 :
    Bind(mc_vec_diagonals(arr, R, C, aran, boltz_random, Ts, 1), LAMBDA p2 :
        [arr |-> Arr2([r \in 0..(R - 1) |-> [c \in 0..(C - 1) |->
                    IF InMask(r, c, 0) THEN p1.arr[r][c] ELSE p2.arr[r][c]]],
                      R, C),
         ratio |-> Rat(p1.accept + p2.accept, R * C),
         pos |-> pos + 2 * R * C]))))

\* MC_step(arr, rows, nmax, Ts) with the generator at position pos: two
\* draws of rows*nmax variates, then the two colours one after the other.
MC_step(arr, R, C, Ts, pos) ==
    Bind(Draw("normal", pos, R, C), LAMBDA aran :
    Bind(Draw("uniform", pos + R * C, R, C), LAMBDA boltz_random :
    Bind(mc_vec_diagonals(arr, R, C, aran, boltz_random, Ts, 0), LAMBDA p1 :
    Bind(mc_vec_diagonals(p1.arr, R, C, aran, boltz_random, Ts, 1), LAMBDA p2 :
        [arr |-> p2.arr,
         ratio |-> Rat(p1.accept + p2.accept, R * C),
         pos |-> pos + 2 * R * C]))))

\* ------------------------------------------------------------------ state
VARIABLES
    size,            \* comm.Get_size(): launched processes
    nmax,            \* lattice side length (SIZE)
    nsteps,          \* Monte Carlo steps (ITERATIONS)
    temp,            \* reduced temperature (TEMPERATURE)
    buffered,        \* TRUE: the MPI library buffers standard-mode sends;
                     \* FALSE: a send completes only once it is matched
    pcM,             \* coordinator's position
    lattice,         \* coordinator's nmax x nmax lattice
    energy, ratio, order,    \* coordinator's series, index 0..nsteps
    i,               \* coordinator's loop index
    offsetM,         \* coordinator's running row offset
    summary,         \* the values of the final print
    pc,              \* worker's position
    offset, rows, above, below,  \* worker's start-up parameters
    local_lattice,   \* worker's block with two ghost rows
    worker_energy, worker_ratio, worker_order,   \* worker's series
    it,              \* worker's step index
    rng,             \* worker's position in its random stream
    beginMsg,        \* BEGIN messages in flight, per worker
    halo,            \* ABOVE/BELOW messages in flight, per (src, dst, tag)
    doneMsg,         \* DONE messages in flight, per worker
    reduceBuf,       \* contributions handed to Reduce, per worker
    swept            \* history: worker's interior rows after each sweep

cfgvars == <<size, nmax, nsteps, temp, buffered>>
mvars == <<pcM, lattice, energy, ratio, order, i, offsetM, summary>>
wparams == <<offset, rows, above, below>>
wseries == <<worker_energy, worker_ratio, worker_order>>
wvars == <<pc, local_lattice, it, rng, swept>>
chans == <<beginMsg, halo, doneMsg, reduceBuf>>
vars == <<cfgvars, mvars, wparams, wseries, wvars, chans>>

numworkers == size - 1
Workers == 1..numworkers
Tags == {ABOVE, BELOW}
Temps == {0, 2}

\* Variant: the view starts at the top ghost row, local_lattice[0:-2, :].
Interior_FromGhost(ll, R) == [r \in 0..(R - 1) |-> ll[r]]

\* local_lattice[1:-1, :]
Interior(ll, R) == [r \in 0..(R - 1) |-> ll[r + 1]]

\* Variant: every rank starts at a place of its own in the stream.
SeedPosition_ByRank(w) == w

\* np.random.seed(seed=42) is run by every rank: each worker's generator
\* starts at the head of the same stream.
SeedPosition(w) == 0

InitWith(Sizes, Ns, Steps, Ts, Bufs) ==
    /\ size \in Sizes
    /\ nmax \in Ns
    /\ nsteps \in Steps
    /\ temp \in Ts
    /\ buffered \in Bufs
    /\ pcM = "start"
    /\ lattice = Zeros2(nmax, nmax)
    /\ energy = <<>> /\ ratio = <<>> /\ order = <<>>
    /\ i = 0 /\ offsetM = 0
    /\ summary = <<>>
    /\ pc = [w \in Workers |-> "begin"]
    /\ offset = [w \in Workers |-> 0]
    /\ rows = [w \in Workers |-> 0]
    /\ above = [w \in Workers |-> 0]
    /\ below = [w \in Workers |-> 0]
    /\ local_lattice = [w \in Workers |-> <<>>]
    /\ worker_energy = [w \in Workers |-> <<>>]
    /\ worker_ratio = [w \in Workers |-> <<>>]
    /\ worker_order = [w \in Workers |-> <<>>]
    /\ it = [w \in Workers |-> 0]
    /\ rng = [w \in Workers |-> SeedPosition(w)]
    /\ beginMsg = [w \in Workers |-> <<>>]
    /\ halo = [ch \in Workers \X Workers \X Tags |-> <<>>]
    /\ doneMsg = [w \in Workers |-> <<>>]
    /\ reduceBuf = [w \in Workers |-> <<>>]
    /\ swept = [w \in Workers |-> <<>>]

Init == InitWith((1..MaxSize) \cup {MAXWORKER + 2}, 1..MaxN, 0..MaxSteps,
                 Temps, BOOLEAN)

\* ------------------------------------------------------------ coordinator
\* A blocking standard-mode send has returned: always when the library
\* buffers, otherwise only when the message has been received.
BeginSendsDone == buffered \/ \A w \in Workers : beginMsg[w] = <<>>

\* Variant: only the lower limit is tested.
WorkerCountRejected_NoUpper == numworkers < MINWORKER

\* if (numworkers > MAXWORKER) or (numworkers < MINWORKER)
WorkerCountRejected == (numworkers > MAXWORKER) \/ (numworkers < MINWORKER)

\* rank == MASTER, up to the start of the distribution loop
MasterInit ==
    /\ pcM = "start"
    /\ IF WorkerCountRejected
       THEN \* comm.Abort() ends every process
            /\ pcM' = "aborted"
            /\ pc' = [w \in Workers |-> "aborted"]
            /\ UNCHANGED <<lattice, energy, ratio, order, i, offsetM>>
       ELSE /\ pcM' = "distribute"
            /\ \E arr \in {initdat(nmax)} :
                 /\ lattice' = arr
                 /\ energy' = [Zeros(nsteps + 1) EXCEPT
                                 ![0] = all_energy(arr, nmax, nmax)]
                 /\ ratio' = [RZeros(nsteps + 1) EXCEPT ![0] = Rat(1, 2)]
                 /\ order' = [RZeros(nsteps + 1) EXCEPT
                                 ![0] = get_order(arr, nmax, nmax)]
            /\ i' = 1
            /\ offsetM' = 0
            /\ UNCHANGED pc
    /\ UNCHANGED <<cfgvars, summary, wparams, wseries, local_lattice, it,
                   rng, swept, chans>>

\* Variant: the extra rows go to the first `extra - 1` workers only.
RowsOf_Short(k, n, nw) == (n \div nw) + (IF k < n % nw THEN 1 ELSE 0)

\* rows of worker k: averow, plus one for the first `extra` workers
RowsOf(k, n, nw) == (n \div nw) + (IF k <= n % nw THEN 1 ELSE 0)

\* Variant: the first worker's above does not wrap to the last worker.
AboveOf_NoWrap(k, nw) == IF k = 1 THEN 1 ELSE k - 1

\* neighbours of worker k on the periodic ring
AboveOf(k, nw) == IF k = 1 THEN nw ELSE IF k = nw THEN nw - 1 ELSE k - 1
BelowOf(k, nw) ==
    IF k = 1 THEN (IF nw > 1 THEN 2 ELSE 1) ELSE IF k = nw THEN 1 ELSE k + 1

\* Variant: the slice ignores the offset.
Slice_NoOffset(lat, off, R) == [r \in 0..(R - 1) |-> lat[r]]

\* lattice[offset:offset+rows, :]
Slice(lat, off, R) == [r \in 0..(R - 1) |-> lat[off + r]]

\* one iteration of the distribution loop
MasterDistribute ==
    /\ pcM = "distribute"
    /\ BeginSendsDone
    /\ LET r == RowsOf(i, nmax, numworkers)
       IN  /\ beginMsg' = [beginMsg EXCEPT ![i] =
                 <<[offset |-> offsetM, rows |-> r,
                    above |-> AboveOf(i, numworkers),
                    below |-> BelowOf(i, numworkers),
                    block |-> Slice(lattice, offsetM, r)]>>]
           /\ offsetM' = offsetM + r
    /\ i' = IF i = numworkers THEN 1 ELSE i + 1
    /\ pcM' = IF i = numworkers THEN "gather" ELSE "distribute"
    /\ UNCHANGED <<cfgvars, lattice, energy, ratio, order, summary, wparams,
                   wseries, wvars, halo, doneMsg, reduceBuf>>

\* lattice[offset_r:offset_r+rows_r, :] = the received block
Insert(lat, off, R, block) ==
    [r \in DOMAIN lat |-> IF off <= r /\ r < off + R THEN block[r - off]
                          ELSE lat[r]]

\* one iteration of the gather loop: receive worker i's block
MasterGather ==
    /\ pcM = "gather"
    /\ BeginSendsDone
    /\ doneMsg[i] # <<>>
    /\ LET m == Head(doneMsg[i])
       IN  lattice' = Insert(lattice, m.offset, m.rows, m.block)
    /\ doneMsg' = [doneMsg EXCEPT ![i] = <<>>]
    /\ i' = IF i = numworkers THEN 1 ELSE i + 1
    /\ pcM' = IF i = numworkers THEN "reduce" ELSE "gather"
    /\ UNCHANGED <<cfgvars, energy, ratio, order, offsetM, summary, wparams,
                   wseries, wvars, beginMsg, halo, reduceBuf>>

\* comm.Reduce(sendbuf, recvbuf, op=MPI.SUM, root=MASTER): the root's own
\* buffer plus every worker's, element by element.
RECURSIVE ReduceSum(_, _, _, _)
ReduceSum(local, bufs, field, k) ==
    IF k = 0 THEN local ELSE ReduceSum(local, bufs, field, k - 1) + bufs[k][field]

RECURSIVE ReduceRSum(_, _, _, _)
ReduceRSum(local, bufs, field, k) ==
    IF k = 0 THEN local
    ELSE RAdd(ReduceRSum(local, bufs, field, k - 1), bufs[k][field])

ReduceEnergy(bufs, t) ==
    ReduceSum(0, [w \in Workers |-> bufs[w].energy], t, numworkers)
ReduceOrder(bufs, t) ==
    ReduceRSum(RZero, [w \in Workers |-> bufs[w].order], t, numworkers)
ReduceRatio(bufs, t) ==
    ReduceRSum(RZero, [w \in Workers |-> bufs[w].ratio], t, numworkers)

\* Variant: the assignment also clears index 0.
SeriesEnergy_ClearsFirst(old, master_energy) ==
    [t \in DOMAIN old |-> IF t >= 1 THEN master_energy[t - 1] ELSE 0]

\* Variant: the mean is taken over all processes, coordinator included.
SeriesMean_OverSize(old, master_sum) ==
    [t \in DOMAIN old |->
        IF t >= 1 THEN RDivInt(master_sum[t - 1], size) ELSE old[t]]

\* energy[1:] = master_energy; ratio[1:] = master_ratio/numworkers; ...
SeriesEnergy(old, master_energy) ==
    [t \in DOMAIN old |-> IF t >= 1 THEN master_energy[t - 1] ELSE old[t]]
SeriesMean(old, master_sum) ==
    [t \in DOMAIN old |->
        IF t >= 1 THEN RDivInt(master_sum[t - 1], numworkers) ELSE old[t]]

\* np.mean of a series
RECURSIVE RSumTo(_, _)
RSumTo(f, n) == IF n = 0 THEN RZero ELSE RAdd(f[n - 1], RSumTo(f, n - 1))
Mean(f, n) == RDivInt(RSumTo(f, n), n)

\* order[nsteps-1] of the final print; a negative index counts from the end
PrintedIndex == IF nsteps - 1 < 0 THEN nsteps - 1 + (nsteps + 1) ELSE nsteps - 1

\* the three reductions, the series assignment and the final print
MasterReduce ==
    /\ pcM = "reduce"
    /\ \A w \in Workers : reduceBuf[w] # <<>>
    /\ \E bufs \in {[w \in Workers |-> Head(reduceBuf[w])]} :
       LET master_energy == [t \in 0..(nsteps - 1) |-> ReduceEnergy(bufs, t)]
           master_order == [t \in 0..(nsteps - 1) |-> ReduceOrder(bufs, t)]
           master_ratio == [t \in 0..(nsteps - 1) |-> ReduceRatio(bufs, t)]
           newratio == SeriesMean(ratio, master_ratio)
           neworder == SeriesMean(order, master_order)
       IN  /\ energy' = SeriesEnergy(energy, master_energy)
           /\ ratio' = newratio
           /\ order' = neworder
           /\ summary' = <<[order |-> neworder[PrintedIndex],
                            ratio |-> Mean(newratio, nsteps + 1)]>>
    /\ reduceBuf' = [w \in Workers |-> <<>>]
    /\ pcM' = "done"
    /\ UNCHANGED <<cfgvars, lattice, i, offsetM, wparams, wseries, wvars,
                   beginMsg, halo, doneMsg>>

\* ---------------------------------------------------------------- workers
\* np.zeros((rows + 2, nmax)) with local_lattice[1:-1, :] = block
Alloc(R, C, block) ==
    [r \in 0..(R + 1) |-> IF 1 <= r /\ r <= R THEN block[r - 1]
                          ELSE [c \in 0..(C - 1) |-> 0]]

\* Variant: the sweep writes through the view local_lattice[0:-2, :].
SetInterior_FromTop(ll, R, arr) ==
    [r \in DOMAIN ll |-> IF r < R THEN arr[r] ELSE ll[r]]

\* local_lattice[1:-1, :] = arr, ghost rows kept
SetInterior(ll, R, arr) ==
    [r \in DOMAIN ll |-> IF 1 <= r /\ r <= R THEN arr[r - 1] ELSE ll[r]]

\* receive the start-up parameters and the block; allocate the series
WorkerStart(w) ==
    /\ pc[w] = "begin"
    /\ beginMsg[w] # <<>>
    /\ LET m == Head(beginMsg[w])
       IN  /\ offset' = [offset EXCEPT ![w] = m.offset]
           /\ rows' = [rows EXCEPT ![w] = m.rows]
           /\ above' = [above EXCEPT ![w] = m.above]
           /\ below' = [below EXCEPT ![w] = m.below]
           /\ local_lattice' = [local_lattice EXCEPT
                                  ![w] = Alloc(m.rows, nmax, m.block)]
    /\ beginMsg' = [beginMsg EXCEPT ![w] = <<>>]
    /\ worker_energy' = [worker_energy EXCEPT ![w] = Zeros(nsteps)]
    /\ worker_ratio' = [worker_ratio EXCEPT ![w] = RZeros(nsteps)]
    /\ worker_order' = [worker_order EXCEPT ![w] = RZeros(nsteps)]
    /\ pc' = [pc EXCEPT ![w] = IF nsteps = 0 THEN "send" ELSE "sweep"]
    /\ UNCHANGED <<cfgvars, mvars, it, rng, swept, halo, doneMsg, reduceBuf>>

\* MC_step, all_energy and get_order on local_lattice[1:-1, :].
\* np.linalg.eig raises on a NaN matrix, so a block of no rows ends the
\* worker in get_order.
WorkerSweep(w) ==
    /\ pc[w] = "sweep"
    /\ \E blk \in {Interior(local_lattice[w], rows[w])} :
       \E s \in {MC_step(blk, rows[w], nmax, temp, rng[w])} :
       \E ord \in {get_order(s.arr, rows[w], nmax)} :
       LET R == rows[w]
       IN  /\ local_lattice' = [local_lattice EXCEPT
                                  ![w] = SetInterior(@, R, s.arr)]
           /\ rng' = [rng EXCEPT ![w] = s.pos]
           /\ worker_ratio' = [worker_ratio EXCEPT ![w][it[w]] = s.ratio]
           /\ worker_energy' = [worker_energy EXCEPT
                                  ![w][it[w]] = all_energy(s.arr, R, nmax)]
           /\ swept' = [swept EXCEPT ![w] = Append(@, s.arr)]
           /\ IF IsNaN(ord)
              THEN /\ pc' = [pc EXCEPT ![w] = "crashed"]
                   /\ UNCHANGED worker_order
              ELSE /\ pc' = [pc EXCEPT ![w] = "post"]
                   /\ worker_order' = [worker_order EXCEPT ![w][it[w]] = ord]
    /\ UNCHANGED <<cfgvars, mvars, wparams, it, chans>>

\* Variants: the ghost rows are sent instead of the interior boundary rows.
LastRow_Ghost(ll, R) == ll[R + 1]
FirstRow_Ghost(ll, R) == ll[0]

\* local_lattice[-2, :] and local_lattice[1, :]
LastRow(ll, R) == ll[R]
FirstRow(ll, R) == ll[1]

\* Variant: each boundary row is sent twice.
WorkerPost_Twice(w) ==
    /\ pc[w] = "post"
    /\ LET toBelow == [row |-> LastRow(local_lattice[w], rows[w]), step |-> it[w]]
           toAbove == [row |-> FirstRow(local_lattice[w], rows[w]), step |-> it[w]]
           h1 == [halo EXCEPT ![<<w, below[w], ABOVE>>] =
                                  Append(Append(@, toBelow), toBelow)]
       IN  halo' = [h1 EXCEPT ![<<w, above[w], BELOW>>] =
                                  Append(Append(@, toAbove), toAbove)]
    /\ pc' = [pc EXCEPT ![w] = "wait"]
    /\ UNCHANGED <<cfgvars, mvars, wparams, wseries, local_lattice, it, rng,
                   swept, beginMsg, doneMsg, reduceBuf>>

\* the two Isend and the two Irecv of one halo exchange
WorkerPost(w) ==
    /\ pc[w] = "post"
    /\ LET toBelow == [row |-> LastRow(local_lattice[w], rows[w]), step |-> it[w]]
           toAbove == [row |-> FirstRow(local_lattice[w], rows[w]), step |-> it[w]]
           h1 == [halo EXCEPT ![<<w, below[w], ABOVE>>] = Append(@, toBelow)]
       IN  halo' = [h1 EXCEPT ![<<w, above[w], BELOW>>] = Append(@, toAbove)]
    /\ pc' = [pc EXCEPT ![w] = "wait"]
    /\ UNCHANGED <<cfgvars, mvars, wparams, wseries, local_lattice, it, rng,
                   swept, beginMsg, doneMsg, reduceBuf>>

\* An Isend of worker w on channel ch has completed: at once when the
\* library buffers; otherwise when the destination has posted the receive
\* that matches it (it is waiting on it, or has already taken the message).
SendMatched(w, dst, tag) ==
    \/ buffered
    \/ halo[<<w, dst, tag>>] = <<>>
    \/ /\ pc[dst] = "wait"
       /\ Len(halo[<<w, dst, tag>>]) = 1

\* The four requests of worker w can all complete.
WaitallReady(w) ==
    /\ halo[<<below[w], w, BELOW>>] # <<>>
    /\ halo[<<above[w], w, ABOVE>>] # <<>>
    /\ SendMatched(w, below[w], ABOVE)
    /\ SendMatched(w, above[w], BELOW)

\* Variant: the loop goes on without waiting for the four requests.
WorkerWaitall_NoWait(w) ==
    /\ pc[w] = "wait"
    /\ it' = [it EXCEPT ![w] = @ + 1]
    /\ pc' = [pc EXCEPT ![w] = IF it[w] + 1 = nsteps THEN "send" ELSE "sweep"]
    /\ UNCHANGED <<cfgvars, mvars, wparams, wseries, local_lattice, rng,
                   swept, chans>>

\* Waitall([req1, req2, req3, req4]): both receives filled, both sends done
WorkerWaitall(w) ==
    /\ pc[w] = "wait"
    /\ WaitallReady(w)
    /\ LET fromBelow == Head(halo[<<below[w], w, BELOW>>])
           fromAbove == Head(halo[<<above[w], w, ABOVE>>])
           h1 == [halo EXCEPT ![<<below[w], w, BELOW>>] = Tail(@)]
       IN  /\ halo' = [h1 EXCEPT ![<<above[w], w, ABOVE>>] = Tail(@)]
           /\ local_lattice' = [local_lattice EXCEPT
                 ![w] = [@ EXCEPT ![rows[w] + 1] = fromBelow.row,
                                  ![0] = fromAbove.row]]
    /\ it' = [it EXCEPT ![w] = @ + 1]
    /\ pc' = [pc EXCEPT ![w] = IF it[w] + 1 = nsteps THEN "send" ELSE "sweep"]
    /\ UNCHANGED <<cfgvars, mvars, wparams, wseries, rng, swept, beginMsg,
                   doneMsg, reduceBuf>>

\* send offset, rows and the interior rows to the coordinator
WorkerSend(w) ==
    /\ pc[w] = "send"
    /\ doneMsg' = [doneMsg EXCEPT ![w] =
          <<[offset |-> offset[w], rows |-> rows[w],
             block |-> Interior(local_lattice[w], rows[w])]>>]
    /\ pc' = [pc EXCEPT ![w] = "reduce"]
    /\ UNCHANGED <<cfgvars, mvars, wparams, wseries, local_lattice, it, rng,
                   swept, beginMsg, halo, reduceBuf>>

\* the worker's side of the three reductions
WorkerReduce(w) ==
    /\ pc[w] = "reduce"
    /\ buffered \/ doneMsg[w] = <<>>
    /\ reduceBuf' = [reduceBuf EXCEPT ![w] =
          <<[energy |-> worker_energy[w], order |-> worker_order[w],
             ratio |-> worker_ratio[w]]>>]
    /\ pc' = [pc EXCEPT ![w] = "done"]
    /\ UNCHANGED <<cfgvars, mvars, wparams, wseries, local_lattice, it, rng,
                   swept, beginMsg, halo, doneMsg>>

\* ---------------------------------------------------------- specifications
Next ==
    \/ MasterInit
    \/ MasterDistribute
    \/ MasterGather
    \/ MasterReduce
    \/ \E w \in Workers : WorkerStart(w)
    \/ \E w \in Workers : WorkerSweep(w)
    \/ \E w \in Workers : WorkerPost(w)
    \/ \E w \in Workers : WorkerWaitall(w)
    \/ \E w \in Workers : WorkerSend(w)
    \/ \E w \in Workers : WorkerReduce(w)

Spec == Init /\ [][Next]_vars

\* Every process is scheduled: a step that stays possible is eventually taken.
FairSpec == Spec /\ WF_vars(Next)

\* Start-up only (partition and neighbour assignment), for every accepted
\* worker count, with unbuffered sends.
InitPart == InitWith(2..(MAXWORKER + 1), 1..MaxNPart, {0}, {2}, {FALSE})

NextPart ==
    \/ MasterInit
    \/ MasterDistribute
    \/ \E w \in Workers : WorkerStart(w)

PartSpec == InitPart /\ [][NextPart]_vars

\* Runs of MaxHaloSteps steps in which every worker owns a row: long
\* enough for a sender to be three steps into the run.
InitHalo == InitWith(2..MaxSize, {MaxN}, {MaxHaloSteps}, {2}, BOOLEAN)

HaloSpec == InitHalo /\ [][Next]_vars

\* ----------------------------------------------------------------- claims
Accepted == MINWORKER <= numworkers /\ numworkers <= MAXWORKER
AllDone == pcM = "done" /\ \A w \in Workers : pc[w] = "done"
EveryWorkerHasRows == numworkers <= nmax
Started(w) == pc[w] \notin {"begin", "aborted"}

\* Total energy of an n x n lattice, periodic in both axes, written out
\* cell by cell (doubled, like every energy of the model).
PeriodicEnergy(lat, n) ==
    SumTo([k \in 0..(n * n - 1) |->
        LET r == k \div n
            c == k % n
        IN    PairEn2(lat[r][c] - lat[(r + 1) % n][c])
            + PairEn2(lat[r][c] - lat[(r + n - 1) % n][c])
            + PairEn2(lat[r][c] - lat[r][(c + 1) % n])
            + PairEn2(lat[r][c] - lat[r][(c + n - 1) % n])], n * n)

\* C1: for every accepted worker count and every nsteps the run completes:
\* every worker finishes its nsteps halo exchanges and its sends, and the
\* coordinator finishes the gather and the three reductions.
C1_RunCompletes == Accepted => <>AllDone

\* The same for the runs in which every worker owns at least one row (not
\* C1 itself: see the zero-row worker in WorkerSweep).
RunCompletesWithRows == (Accepted /\ EveryWorkerHasRows) => <>AllDone

\* C2: when every worker owns a row, after the Waitall of step t (it = t+1)
\* the top ghost row is the above-neighbour's last interior row after its
\* step-t sweep and the bottom ghost row is the below-neighbour's first
\* interior row after its step-t sweep; the message a waiting worker will
\* take next on either channel is the one of its own step.
C2_GhostRowsFresh ==
    EveryWorkerHasRows =>
        \A w \in Workers :
            /\ it[w] >= 1 =>
                /\ local_lattice[w][0]
                     = swept[above[w]][it[w]][rows[above[w]] - 1]
                /\ local_lattice[w][rows[w] + 1] = swept[below[w]][it[w]][0]
            /\ pc[w] = "wait" =>
                /\ halo[<<above[w], w, ABOVE>>] # <<>> =>
                      Head(halo[<<above[w], w, ABOVE>>]).step = it[w]
                /\ halo[<<below[w], w, BELOW>>] # <<>> =>
                      Head(halo[<<below[w], w, BELOW>>]).step = it[w]

\* C2 witness: two workers (one neighbour, two tags), second exchange done,
\* and the two ghost rows differ.
C2_Witness ==
    /\ numworkers = 2
    /\ EveryWorkerHasRows
    /\ it[2] = 2
    /\ local_lattice[2][0] # local_lattice[2][rows[2] + 1]

\* C3: the sum over the workers of the block energies they compute equals
\* the total energy of the full lattice: after the run, the last entry of
\* the energy series is the energy of the gathered lattice.
C3_PartitionInvariantEnergy ==
    (pcM = "done" /\ nsteps >= 1) =>
        energy[nsteps] = PeriodicEnergy(lattice, nmax)

\* C4: for 1 <= P <= N, with no sweep, the gathered lattice is the initial
\* lattice, and every global row lies in exactly one worker's block.
C4_RoundTrip ==
    (EveryWorkerHasRows /\ nsteps = 0 /\ pcM \in {"reduce", "done"}) =>
        /\ lattice = initdat(nmax)
        /\ \A g \in 0..(nmax - 1) :
              Cardinality({w \in Workers :
                  offset[w] <= g /\ g < offset[w] + rows[w]}) = 1

C4_Witness ==
    /\ numworkers = 2 /\ nmax = 3 /\ nsteps = 0 /\ pcM = "done"
    /\ lattice[0] # lattice[2]

\* The share the partition rule of the specification gives worker w, and
\* the sum of the shares of workers 1..k.
ExpectedRows(w) ==
    (nmax \div numworkers) + (IF w <= nmax % numworkers THEN 1 ELSE 0)

RECURSIVE ExpectedRowsUpTo(_)
ExpectedRowsUpTo(k) ==
    IF k = 0 THEN 0 ELSE ExpectedRowsUpTo(k - 1) + ExpectedRows(k)

\* C5: worker w gets N div P rows, plus one when it is among the first
\* N mod P workers; its offset is the sum of the rows of workers 1..w-1,
\* starting at 0; the rows sum to N and two blocks differ by at most one row.
C5_Partition ==
    /\ \A w \in Workers : Started(w) =>
          /\ rows[w] = ExpectedRows(w)
          /\ offset[w] = ExpectedRowsUpTo(w - 1)
          /\ w = 1 => offset[w] = 0
    /\ (Accepted /\ \A w \in Workers : Started(w)) =>
          /\ ExpectedRowsUpTo(numworkers) = nmax
          /\ offset[numworkers] + rows[numworkers] = nmax
          /\ \A v, w \in Workers : rows[v] - rows[w] \in {-1, 0, 1}
    /\ (Accepted /\ pcM \in {"gather", "reduce", "done"}) => offsetM = nmax

\* C5 witness: seventeen workers, all started, with unequal blocks.
C5_Witness ==
    /\ numworkers = MAXWORKER
    /\ \A w \in Workers : Started(w)
    /\ rows[1] # rows[numworkers]

\* C6: the neighbours form one periodic ring over 1..P: above(1) = P,
\* below(P) = 1, otherwise above = w-1 and below = w+1, and above and below
\* are inverse to each other.
C6_Ring ==
    /\ \A w \in Workers : Started(w) =>
          /\ above[w] = (IF w = 1 THEN numworkers ELSE w - 1)
          /\ below[w] = (IF w = numworkers THEN 1 ELSE w + 1)
    /\ (\A w \in Workers : Started(w)) =>
          \A w \in Workers : below[above[w]] = w /\ above[below[w]] = w

C6_Witness ==
    /\ numworkers = MAXWORKER
    /\ \A w \in Workers : Started(w)
    /\ above[1] = MAXWORKER /\ below[MAXWORKER] = 1

\* C7: with one worker, the worker is its own above and below, a posted
\* halo exchange can always complete and wraps the block onto itself, and
\* every reported energy is the periodic total energy of the full lattice
\* after that step.
C7_SingleWorker ==
    numworkers = 1 =>
        /\ Started(1) => above[1] = 1 /\ below[1] = 1
        /\ pc[1] = "wait" => WaitallReady(1)
        /\ (it[1] >= 1 /\ pc[1] \in {"sweep", "send", "reduce", "done"}) =>
              /\ local_lattice[1][0] = local_lattice[1][rows[1]]
              /\ local_lattice[1][rows[1] + 1] = local_lattice[1][1]
        /\ pcM = "done" =>
              \A t \in 1..nsteps :
                  energy[t] = PeriodicEnergy(swept[1][t], nmax)

C7_Witness ==
    /\ numworkers = 1 /\ nmax = 3 /\ nsteps = 2 /\ pcM = "done"
    /\ energy[1] # energy[2]
    /\ local_lattice[1][0] # local_lattice[1][rows[1] + 1]

\* C8: the statistics of step t are computed only after the worker's
\* step-t halo exchange has completed: a worker never has more steps
\* measured than exchanges completed.
StepsMeasured(w) == IF pc[w] \in {"post", "wait"} THEN it[w] + 1 ELSE it[w]
ExchangesCompleted(w) == it[w]
C8_MeasureAfterExchange ==
    \A w \in Workers : Started(w) /\ pc[w] # "crashed" =>
        StepsMeasured(w) <= ExchangesCompleted(w)

\* Sums over the workers of their recorded series at step index t.
RECURSIVE WorkerEnergySum(_, _)
WorkerEnergySum(t, k) ==
    IF k = 0 THEN 0 ELSE worker_energy[k][t] + WorkerEnergySum(t, k - 1)

RECURSIVE WorkerSeriesSum(_, _, _)
WorkerSeriesSum(series, t, k) ==
    IF k = 0 THEN RZero ELSE RAdd(series[k][t], WorkerSeriesSum(series, t, k - 1))

\* C9: after the run, energy[t] is the sum over the workers of the energy
\* they recorded for step t, ratio[t] and order[t] are the sums of the
\* recorded ratios and orders divided by the number of workers; nothing of
\* the coordinator's enters.
C9_Reduction ==
    pcM = "done" =>
        \A t \in 1..nsteps :
            /\ energy[t] = WorkerEnergySum(t - 1, numworkers)
            /\ ratio[t] = RDivInt(WorkerSeriesSum(worker_ratio, t - 1,
                                                  numworkers), numworkers)
            /\ order[t] = RDivInt(WorkerSeriesSum(worker_order, t - 1,
                                                  numworkers), numworkers)

C9_Witness ==
    /\ pcM = "done" /\ numworkers = 2 /\ nsteps = 2
    /\ energy[2] # 0 /\ ratio[2] # RZero /\ order[2] # RZero
    /\ worker_energy[1][1] # worker_energy[2][1]
    /\ worker_ratio[1][1] # worker_ratio[2][1]

\* C10: the series have the indices 0..nsteps; index 0 holds the state
\* before any sweep (the energy and order of the raw initial lattice, the
\* ratio 0.5) from the moment it is set to the end of the run.
C10_InitialEntry ==
    pcM \notin {"start", "aborted"} =>
        /\ DOMAIN energy = 0..nsteps
        /\ DOMAIN ratio = 0..nsteps
        /\ DOMAIN order = 0..nsteps
        /\ energy[0] = PeriodicEnergy(initdat(nmax), nmax)
        /\ ratio[0] = Rat(1, 2)
        /\ order[0] = get_order(initdat(nmax), nmax, nmax)

C10_Witness ==
    /\ pcM = "done" /\ nsteps = 2 /\ numworkers = 2
    /\ energy[0] # energy[1] /\ energy[0] # 0

\* The value the configuration alone determines for worker w's interior
\* rows after t sweeps: the worker's share of the initial lattice, swept t
\* times with the worker's generator, which starts at position 0.
RECURSIVE RefBlock(_, _)
RefBlock(w, t) ==
    IF t = 0
    THEN [r \in 0..(ExpectedRows(w) - 1) |->
              initdat(nmax)[ExpectedRowsUpTo(w - 1) + r]]
    ELSE MC_step(RefBlock(w, t - 1), ExpectedRows(w), nmax, temp,
                 2 * ExpectedRows(w) * nmax * (t - 1)).arr

RefRatio(w, t) ==
    MC_step(RefBlock(w, t - 1), ExpectedRows(w), nmax, temp,
            2 * ExpectedRows(w) * nmax * (t - 1)).ratio

RECURSIVE RefEnergySum(_, _)
RefEnergySum(t, k) ==
    IF k = 0 THEN 0
    ELSE all_energy(RefBlock(k, t), ExpectedRows(k), nmax)
           + RefEnergySum(t, k - 1)

RECURSIVE RefOrderSum(_, _)
RefOrderSum(t, k) ==
    IF k = 0 THEN RZero
    ELSE RAdd(get_order(RefBlock(k, t), ExpectedRows(k), nmax),
              RefOrderSum(t, k - 1))

RECURSIVE RefRatioSum(_, _)
RefRatioSum(t, k) ==
    IF k = 0 THEN RZero ELSE RAdd(RefRatio(k, t), RefRatioSum(t, k - 1))

\* C11: the series and the final lattice of a completed run are a function
\* of (seed, nmax, nsteps, temp, numworkers) alone: whatever the
\* interleaving of the workers' steps, the delivery of the halo messages
\* and the buffering of the sends, a run that completes ends with the same
\* values, so two runs of the same configuration agree.
C11_Deterministic ==
    pcM = "done" =>
        /\ \A w \in Workers : \A r \in 0..(ExpectedRows(w) - 1) :
              lattice[ExpectedRowsUpTo(w - 1) + r] = RefBlock(w, nsteps)[r]
        /\ \A t \in 1..nsteps :
              /\ energy[t] = RefEnergySum(t, numworkers)
              /\ order[t] = RDivInt(RefOrderSum(t, numworkers), numworkers)
              /\ ratio[t] = RDivInt(RefRatioSum(t, numworkers), numworkers)

\* C11 witness: a completed run of two workers and two steps, sends not
\* buffered, whose series move and whose blocks differ in size.
C11_Witness ==
    /\ pcM = "done" /\ numworkers = 2 /\ nmax = 3 /\ nsteps = 2
    /\ ~buffered
    /\ energy[1] # energy[2]
    /\ lattice # initdat(nmax)

\* C12: when the worker count is below MINWORKER or above MAXWORKER the
\* coordinator does nothing but abort: no BEGIN message is ever sent, no
\* worker receives a block or sweeps, and no series or summary exists.
C12_AbortOnWorkerCount ==
    ~Accepted =>
        /\ pcM \in {"start", "aborted"}
        /\ \A w \in Workers :
              /\ pc[w] \in {"begin", "aborted"}
              /\ beginMsg[w] = <<>>
              /\ local_lattice[w] = <<>>
              /\ swept[w] = <<>>
        /\ energy = <<>> /\ ratio = <<>> /\ order = <<>>
        /\ summary = <<>>

\* C12 witness: a launch with one worker too many has been aborted.
C12_Witness ==
    /\ numworkers = MAXWORKER + 1
    /\ pcM = "aborted"
    /\ \A w \in Workers : pc[w] = "aborted"

\* C13: a temperature of zero or below is a fatal configuration error: the
\* run is aborted before any sweep, so no worker ever sweeps (and no
\* acceptance decision is made) with temp <= 0.
C13_ZeroTemperatureFatal ==
    temp <= 0 => \A w \in Workers : swept[w] = <<>>

\* C14: for nsteps >= 1 the order parameter of the summary line is the
\* final one, the entry of the order series at index nsteps.
C14_PrintsFinalOrder ==
    (pcM = "done" /\ nsteps >= 1) => summary[1].order = order[nsteps]

\* C15: two ring-adjacent workers never differ by more than one in the
\* number of steps (halo exchanges) they have completed, and a worker that
\* has completed the exchange of a step has neighbours that have completed
\* the sweep of that step.
C15_NeighbourSkew ==
    \A w \in Workers : Started(w) =>
        \A v \in {above[w], below[w]} :
            /\ it[w] - it[v] \in {-1, 0, 1}
            /\ it[w] <= Len(swept[v])

\* C15 witness: three workers, one two steps done, its neighbour one.
C15_Witness ==
    /\ numworkers = 3
    /\ it[1] = 2 /\ it[2] = 1

\* C16: no worker begins its sweep of step t+1 until every worker has
\* completed its step-t halo exchange: a worker that has swept k times
\* finds k-1 completed exchanges at every worker.
C16_GlobalBarrier ==
    \A w, v \in Workers : Started(w) => Len(swept[w]) <= it[v] + 1

\* C16 as amended: no worker begins its sweep of step t+1 until it has
\* completed its own step-t halo exchange, and so until each of its ring
\* neighbours has completed its sweep of step t; the neighbours' own
\* exchanges of step t, and the other workers, may still be outstanding.
C16_SweepAfterOwnExchange ==
    \A w \in Workers : Started(w) =>
        /\ Len(swept[w]) <= it[w] + 1
        /\ \A v \in {above[w], below[w]} : Len(swept[w]) <= Len(swept[v]) + 1

\* C16 witness: a worker has swept step 2 while its neighbour has not yet
\* returned from the Waitall of step 1.
C16_Witness ==
    /\ numworkers = 2
    /\ Len(swept[1]) = 2
    /\ it[2] = 0 /\ pc[2] = "wait"

\* Energy of the R interior rows of a local lattice ll (rows 1..R, ghost
\* rows 0 and R+1) when the vertical neighbours are the rows just above and
\* below in ll, so that the block's edge rows read the ghost rows; columns
\* are periodic.  Doubled, like every energy of the model.
HaloEnergy(ll, R, C) ==
    SumTo([k \in 0..(R * C - 1) |->
        LET r == (k \div C) + 1
            c == k % C
        IN    PairEn2(ll[r][c] - ll[r + 1][c])
            + PairEn2(ll[r][c] - ll[r - 1][c])
            + PairEn2(ll[r][c] - ll[r][(c + 1) % C])
            + PairEn2(ll[r][c] - ll[r][(c + C - 1) % C])], R * C)

\* C17: the energies a worker computes for its block read the ghost rows
\* at the block's edges: with two or more workers, once the ghost rows have
\* been filled by an exchange, the energy a worker records after a sweep is the energy of its
\* interior rows with the top ghost row above the first interior row and
\* the bottom ghost row below the last.
C17_EdgesReadGhostRows ==
    \A w \in Workers :
        (numworkers >= 2 /\ pc[w] = "post" /\ it[w] >= 1) =>
            worker_energy[w][it[w]] = HaloEnergy(local_lattice[w], rows[w], nmax)

\* The checkerboard colouring of an R x C block is proper for the neighbour
\* relation of the energy function: no cell is its own neighbour and no
\* two neighbours have the same colour.
ProperColouring(R, C) ==
    \A r \in 0..(R - 1), c \in 0..(C - 1) :
        \A n \in Neighbours(r, c, R, C) :
            /\ n # <<r, c>>
            /\ \A parity \in {0, 1} :
                  ~(InMask(r, c, parity) /\ InMask(n[1], n[2], parity))

\* C18: for every block a sweep is applied to, no two cells of the same
\* colour are neighbours under the periodic neighbour relation the energy
\* function uses on that block, and no cell is its own neighbour.
C18_ColoursIndependent ==
    \A w \in Workers :
        (Started(w) /\ Len(swept[w]) >= 1) => ProperColouring(rows[w], nmax)

\* Energy of cell (r, c) of an R x C array, from its four neighbours.
CellEnergy(arr, r, c, R, C) ==
      PairEn2(arr[r][c] - arr[(r + 1) % R][c])
    + PairEn2(arr[r][c] - arr[(r + R - 1) % R][c])
    + PairEn2(arr[r][c] - arr[r][(c + 1) % C])
    + PairEn2(arr[r][c] - arr[r][(c + C - 1) % C])

\* One colour phase, cell by cell: every cell of the colour is perturbed,
\* and a cell keeps its new angle when its energy in the perturbed array is
\* not above its energy in the array before the phase, or by the Boltzmann
\* test; the cells of the other colour are untouched.
ColourPhase(arr, R, C, pos, Ts, parity) ==
    LET aran(r, c) == Normal(Stream(pos + r * C + c))
        u(r, c) == Uniform(Stream(pos + R * C + r * C + c))
        perturbed == Arr2([r \in 0..(R - 1) |-> [c \in 0..(C - 1) |->
                        IF InMask(r, c, parity) THEN arr[r][c] + aran(r, c)
                        ELSE arr[r][c]]], R, C)
    IN  Arr2([r \in 0..(R - 1) |-> [c \in 0..(C - 1) |->
            IF InMask(r, c, parity)
               /\ Accepts(CellEnergy(arr, r, c, R, C),
                          CellEnergy(perturbed, r, c, R, C), u(r, c), Ts)
            THEN perturbed[r][c] ELSE arr[r][c]]], R, C)

\* Worker w's interior rows before its k-th sweep (k >= 1).
BeforeSweep(w, k) == IF k = 1 THEN RefBlock(w, 0) ELSE swept[w][k - 1]

\* C19: the two colours of a sweep are processed one after the other: the
\* block after a worker's k-th sweep is the second colour's phase applied
\* to the result of the first colour's phase, so the second colour's
\* energies before and after its perturbation are taken against the first
\* colour's final values.
C19_ColoursSequential ==
    \A w \in Workers : \A k \in 1..Len(swept[w]) :
        LET R == rows[w]
            pos == 2 * R * nmax * (k - 1)
            first == ColourPhase(BeforeSweep(w, k), R, nmax, pos, temp, 0)
        IN  swept[w][k] = ColourPhase(first, R, nmax, pos, temp, 1)

\* C19 witness: a sweep in which the first colour's phase changed a cell
\* and the second colour's phase changed another.
C19_Witness ==
    \E w \in Workers :
        /\ Len(swept[w]) >= 1 /\ rows[w] >= 2
        /\ LET R == rows[w]
               first == ColourPhase(BeforeSweep(w, 1), R, nmax, 0, temp, 0)
           IN  /\ first # BeforeSweep(w, 1)
               /\ swept[w][1] # first

\* The cells of worker w's block that its k-th sweep changed.
ChangedCells(w, k) ==
    {rc \in (0..(rows[w] - 1)) \X (0..(nmax - 1)) :
        swept[w][k][rc[1]][rc[2]] # BeforeSweep(w, k)[rc[1]][rc[2]]}

\* C20: the two masks of a sweep are disjoint and cover the block: every
\* interior cell is in exactly one of them, and so a sweep moves a cell by
\* nothing or by its one proposed change, and accepts at most one change
\* per cell.
C20_MasksPartition ==
    \A w \in Workers : \A k \in 1..Len(swept[w]) :
        /\ \A r \in 0..(rows[w] - 1), c \in 0..(nmax - 1) :
              /\ Cardinality({parity \in {0, 1} : InMask(r, c, parity)}) = 1
              /\ swept[w][k][r][c] - BeforeSweep(w, k)[r][c]
                    \in {0, Normal(Stream(2 * rows[w] * nmax * (k - 1)
                                           + r * nmax + c))}
        /\ ~IsNaN(worker_ratio[w][k - 1]) =>
              worker_ratio[w][k - 1].num <= worker_ratio[w][k - 1].den

\* C20 witness: a sweep that changed a cell of each colour.
C20_Witness ==
    \E w \in Workers :
        /\ Len(swept[w]) >= 1
        /\ \E a, b \in ChangedCells(w, 1) :
              InMask(a[1], a[2], 0) /\ InMask(b[1], b[2], 1)

\* The acceptance rule of one colour phase, stated cell by cell on the
\* phase's input arr and output out: with every cell of the colour perturbed
\* at once, a cell whose energy has not risen holds its perturbed angle; a
\* cell holds either its old or its perturbed angle; a cell that was
\* reverted had its energy rise and a Boltzmann factor below its uniform
\* value; cells of the other colour are untouched.
PhaseObeysRule(arr, out, R, C, pos, Ts, parity) ==
    LET aran(r, c) == Normal(Stream(pos + r * C + c))
        u(r, c) == Uniform(Stream(pos + R * C + r * C + c))
        perturbed == Arr2([r \in 0..(R - 1) |-> [c \in 0..(C - 1) |->
                        IF InMask(r, c, parity) THEN arr[r][c] + aran(r, c)
                        ELSE arr[r][c]]], R, C)
    IN  \A r \in 0..(R - 1), c \in 0..(C - 1) :
            LET e0 == CellEnergy(arr, r, c, R, C)
                e1 == CellEnergy(perturbed, r, c, R, C)
            IN  IF ~InMask(r, c, parity) THEN out[r][c] = arr[r][c]
                ELSE /\ e1 <= e0 => out[r][c] = perturbed[r][c]
                     /\ out[r][c] \in {arr[r][c], perturbed[r][c]}
                     /\ out[r][c] # perturbed[r][c] =>
                           /\ out[r][c] = arr[r][c]
                           /\ e1 > e0
                           /\ Boltz8(e1 - e0, Ts) <= u(r, c)

\* One colour phase of worker w's k-th sweep as mc_vec_diagonals computes
\* it on the array arr.
SweepPhase(w, k, arr, parity) ==
    mc_vec_diagonals(arr, rows[w], nmax,
                     Draw("normal", 2 * rows[w] * nmax * (k - 1), rows[w], nmax),
                     Draw("uniform", 2 * rows[w] * nmax * (k - 1) + rows[w] * nmax,
                          rows[w], nmax),
                     temp, parity)

\* C21: in each colour phase of every sweep a proposal whose energy does
\* not rise is accepted whatever its uniform value, a proposal is rejected
\* only when its energy rises and the Boltzmann factor is below its uniform
\* value, a rejected cell ends with its angle of before the perturbation
\* and an accepted cell with that angle plus its perturbation.
C21_AcceptanceRule ==
    \A w \in Workers : \A k \in 1..Len(swept[w]) :
        \E arr \in {BeforeSweep(w, k)} :
        \E p1 \in {SweepPhase(w, k, arr, 0)} :
        \E p2 \in {SweepPhase(w, k, p1.arr, 1)} :
            LET pos == 2 * rows[w] * nmax * (k - 1)
            IN  /\ PhaseObeysRule(arr, p1.arr, rows[w], nmax, pos, temp, 0)
                /\ PhaseObeysRule(p1.arr, p2.arr, rows[w], nmax, pos, temp, 1)
                /\ swept[w][k] = p2.arr

\* C21 witness: a sweep whose first phase accepted a proposal that left the
\* energy unchanged or lower, and reverted another.
C21_Witness ==
    \E w \in Workers :
        /\ Len(swept[w]) >= 1
        /\ LET R == rows[w]
               arr == BeforeSweep(w, 1)
               out == SweepPhase(w, 1, arr, 0).arr
           IN  \E a, b \in (0..(R - 1)) \X (0..(nmax - 1)) :
                 /\ InMask(a[1], a[2], 0) /\ InMask(b[1], b[2], 0)
                 /\ out[a[1]][a[2]] # arr[a[1]][a[2]]
                 /\ Normal(Stream(b[1] * nmax + b[2])) # 0
                 /\ out[b[1]][b[2]] = arr[b[1]][b[2]]

\* The cells of one colour whose proposal is accepted in a phase on arr.
AcceptedCells(arr, R, C, pos, Ts, parity) ==
    LET aran(r, c) == Normal(Stream(pos + r * C + c))
        u(r, c) == Uniform(Stream(pos + R * C + r * C + c))
        perturbed == Arr2([r \in 0..(R - 1) |-> [c \in 0..(C - 1) |->
                        IF InMask(r, c, parity) THEN arr[r][c] + aran(r, c)
                        ELSE arr[r][c]]], R, C)
    IN  {rc \in (0..(R - 1)) \X (0..(C - 1)) :
            /\ InMask(rc[1], rc[2], parity)
            /\ LET e0 == CellEnergy(arr, rc[1], rc[2], R, C)
                   e1 == CellEnergy(perturbed, rc[1], rc[2], R, C)
               IN  e1 <= e0 \/ Boltz8(e1 - e0, Ts) > u(rc[1], rc[2])}

IsStartOf(w) == pc[w] = "begin" /\ pc'[w] \in {"sweep", "send"}
IsSweepOf(w) == pc[w] = "sweep" /\ pc'[w] \in {"post", "crashed"}
IsWaitallOf(w) == pc[w] = "wait" /\ pc'[w] \in {"sweep", "send"}

\* C23: a worker's sweep changes only that worker's interior rows and
\* leaves its ghost rows as they are; its ghost rows change only in its
\* own Waitall; after the worker has received its block, its interior rows
\* change only in its own sweeps, whatever the other processes do.
C23_Frame ==
    [][\A w \in Workers :
          /\ local_lattice'[w] # local_lattice[w] =>
                IsStartOf(w) \/ IsSweepOf(w) \/ IsWaitallOf(w)
          /\ IsSweepOf(w) =>
                /\ local_lattice'[w][0] = local_lattice[w][0]
                /\ local_lattice'[w][rows[w] + 1] = local_lattice[w][rows[w] + 1]
                /\ \A v \in Workers \ {w} : local_lattice'[v] = local_lattice[v]
          /\ IsWaitallOf(w) =>
                Interior(local_lattice'[w], rows[w])
                    = Interior(local_lattice[w], rows[w])
      ]_vars

\* C23 witness: a worker whose second sweep changed its interior rows and
\* whose first exchange changed a ghost row.
C23_Witness ==
    \E w \in Workers :
        /\ Len(swept[w]) = 2 /\ swept[w][2] # swept[w][1]
        /\ \E c \in 0..(nmax - 1) : local_lattice[w][0][c] # 0

\* Worker v's interior rows at the end of step t, the end of step 0 being
\* the block the coordinator distributed.
BlockAtEndOf(v, t) == IF t = 0 THEN RefBlock(v, 0) ELSE swept[v][t]

\* C24: when every worker owns a row, a worker about to sweep step t (it
\* has completed t exchanges), the first step included, holds in its ghost
\* rows its neighbours' boundary rows as of the end of step t-1: the last
\* interior row of its above neighbour and the first interior row of its
\* below neighbour.
C24_GhostRowsOfPreviousStep ==
    EveryWorkerHasRows =>
        \A w \in Workers :
            pc[w] = "sweep" =>
                /\ local_lattice[w][0]
                     = BlockAtEndOf(above[w], it[w])[rows[above[w]] - 1]
                /\ local_lattice[w][rows[w] + 1]
                     = BlockAtEndOf(below[w], it[w])[0]

\* C25: on every channel (sender, receiver, tag) of the halo exchange at
\* most two messages are sent and not yet received, however the workers
\* are scheduled and whether or not the sends are buffered.
C25_BoundedHaloTraffic ==
    \A ch \in DOMAIN halo : Len(halo[ch]) <= 2

\* C25 witness: a channel holds two messages, of two consecutive steps.
C25_Witness ==
    \E ch \in DOMAIN halo :
        /\ Len(halo[ch]) = 2
        /\ halo[ch][2].step = halo[ch][1].step + 1

\* The change worker w's k-th sweep made to cell (r, c).
ChangeOf(w, k, r, c) == swept[w][k][r][c] - BeforeSweep(w, k)[r][c]

\* C26: every worker's generator starts from the same seed and advances
\* only in its sweeps, by 2 x rows x nmax variates per sweep; so two
\* workers with the same number of rows are at the same place of the same
\* stream in every step and use the same perturbations: wherever both
\* changed the same cell in the same step, they changed it by the same
\* amount.
C26_SharedRandomStream ==
    \A w \in Workers : Started(w) =>
        /\ rng[w] = 2 * rows[w] * nmax * Len(swept[w])
        /\ \A v \in Workers :
              (Started(v) /\ rows[v] = rows[w]) =>
                  \A k \in 1..Len(swept[w]) :
                      k <= Len(swept[v]) =>
                          \A r \in 0..(rows[w] - 1), c \in 0..(nmax - 1) :
                              (ChangeOf(w, k, r, c) # 0
                                  /\ ChangeOf(v, k, r, c) # 0)
                                => ChangeOf(w, k, r, c) = ChangeOf(v, k, r, c)

\* C26 witness: two workers with equal row counts and different blocks
\* changed the same cell in their first sweep.
C26_Witness ==
    \E w, v \in Workers :
        /\ w # v /\ Started(w) /\ Started(v) /\ rows[w] = rows[v]
        /\ Len(swept[w]) >= 1 /\ Len(swept[v]) >= 1
        /\ BeforeSweep(w, 1) # BeforeSweep(v, 1)
        /\ \E r \in 0..(rows[w] - 1), c \in 0..(nmax - 1) :
              ChangeOf(w, 1, r, c) # 0 /\ ChangeOf(v, 1, r, c) # 0

\* C27: in every accepted run every worker that has received its block
\* parameters owns at least one interior row, so that local rows 1 and -2
\* of its block are interior rows.
C27_EveryWorkerOwnsARow ==
    Accepted => \A w \in Workers : Started(w) => rows[w] >= 1

====
